---- MODULE Spec2Model ----
(***************************************************************************)
(* OpenIntel (src/src/index.js): an SQLite-backed store of intel entries   *)
(* with an optional vector side table (sqlite-vec), an embedding gateway,  *)
(* keyword / semantic / hybrid search and a batch reindex.                 *)
(*                                                                         *)
(* Text is modelled as a tuple of one-character strings.  An async method  *)
(* is split at its `await this._embed(...)`: the part before the await is  *)
(* one action, the continuation after the gateway settled is another.      *)
(***************************************************************************)
EXTENDS Integers, Sequences, FiniteSets, TLC

(***************************************************************************)
(* Bounds of the model.                                                    *)
(***************************************************************************)
\* adds accepted by a store that was created empty
MaxAdds == 2
\* largest created_at value (seconds of datetime('now'))
MaxClock == 1
\* entries already in the database file that the bulk store opens
Preloaded == 128
\* adds accepted by the bulk store, on top of the preloaded entries
MaxBulkAdds == 1
\* trades the journal accepts
MaxTrades == 2
MaxCalls == 2

(***************************************************************************)
(* Program constants.                                                      *)
(***************************************************************************)
\* const batchSize = 128;
batchSize == 128
\* scored.push({ id, score: 0.7 * vecScore + kwScore }): weights in tenths
SemanticWeight == 7
KeywordWeight == 3
WeightDen == 10
\* const { limit = 20, since, tag } = options
DefaultLimit == 20

(***************************************************************************)
(* Text.  SQL NULL and the empty JS string share the empty tuple: add      *)
(* stores `body || null` and `source || null`, so a stored body or source  *)
(* is NULL or non-empty, and `!title` rejects undefined and '' alike.      *)
(***************************************************************************)
Null == <<>>

Min(a, b) == IF a < b THEN a ELSE b

\* SQLite's LIKE folds the case of ASCII letters (no case_sensitive_like pragma is set)
Fold(c) == CASE c = "A" -> "a" [] c = "B" -> "b" [] OTHER -> c

RECURSIVE Like(_, _)
\* X LIKE pattern, for a non-NULL X: % matches any run, _ any one character
Like(pat, s) ==
  IF pat = <<>> THEN s = <<>>
  ELSE IF Head(pat) = "%"
       THEN \E k \in 0..Len(s) : Like(Tail(pat), SubSeq(s, k + 1, Len(s)))
       ELSE /\ s # <<>>
            /\ (Head(pat) = "_" \/ Fold(Head(pat)) = Fold(Head(s)))
            /\ Like(Tail(pat), Tail(s))

\* const pattern = `%${text}%`
Pattern(text) == <<"%">> \o text \o <<"%">>

\* `col LIKE ?` in a WHERE clause: a NULL column never matches
ColLike(col, text) == col # Null /\ Like(Pattern(text), col)

\* `${title}. ${body || ''}`.trim()
ComposeText(title, body) ==
  IF body = Null THEN title \o <<".">> ELSE title \o <<".", " ">> \o body

(***************************************************************************)
(* JSON text of the tags and metadata columns.  A tag list is a sequence   *)
(* of strings, a metadata map a sequence of <<key, value>> pairs of        *)
(* strings with distinct keys, in insertion order.                         *)
(***************************************************************************)
\* a string put between quotes as it is
EscapeNone(s) == s

RECURSIVE Escape(_)
\* the characters of a string inside its JSON literal: " and \ get a backslash
Escape(s) ==
  IF s = <<>> THEN <<>>
  ELSE (IF Head(s) \in {"\"", "\\"} THEN <<"\\", Head(s)>> ELSE <<Head(s)>>) \o Escape(Tail(s))

Quote(s) == <<"\"">> \o Escape(s) \o <<"\"">>

RECURSIVE Join(_)
\* the parts with a comma between them
Join(parts) ==
  IF parts = <<>> THEN <<>>
  ELSE IF Len(parts) = 1 THEN parts[1]
  ELSE parts[1] \o <<",">> \o Join(Tail(parts))

\* JSON.stringify of an array of strings
StringifyTags(tags) ==
  <<"[">> \o Join([j \in 1..Len(tags) |-> Quote(tags[j])]) \o <<"]">>

\* JSON.stringify of an object with string values
StringifyMetadata(metadata) ==
  <<"{">> \o Join([j \in 1..Len(metadata) |->
                     Quote(metadata[j][1]) \o <<":">> \o Quote(metadata[j][2])]) \o <<"}">>

\* what JSON.parse does with text that is no JSON: it throws a SyntaxError
SyntaxError == [ok |-> FALSE, val |-> <<>>, next |-> 0]

RECURSIVE ReadString(_, _, _)
\* the string literal whose opening quote stands before position i: its value
\* and the position behind its closing quote
ReadString(s, i, acc) ==
  IF i > Len(s) THEN SyntaxError
  ELSE IF s[i] = "\"" THEN [ok |-> TRUE, val |-> acc, next |-> i + 1]
  ELSE IF s[i] = "\\"
       THEN IF i + 1 > Len(s) THEN SyntaxError
            ELSE ReadString(s, i + 2, Append(acc, s[i + 1]))
  ELSE ReadString(s, i + 1, Append(acc, s[i]))

RECURSIVE ReadItems(_, _, _)
\* the elements of an array from position i, where one has to open
ReadItems(s, i, acc) ==
  IF i > Len(s) \/ s[i] # "\"" THEN SyntaxError
  ELSE LET str == ReadString(s, i + 1, <<>>)
       IN IF ~str.ok \/ str.next > Len(s) THEN SyntaxError
          ELSE IF s[str.next] = "," THEN ReadItems(s, str.next + 1, Append(acc, str.val))
          ELSE IF s[str.next] = "]" /\ str.next = Len(s)
               THEN [ok |-> TRUE, val |-> Append(acc, str.val), next |-> str.next + 1]
          ELSE SyntaxError

\* JSON.parse of the tags column
ParseTags(s) ==
  IF s = <<"[", "]">> THEN [ok |-> TRUE, val |-> <<>>, next |-> 3]
  ELSE IF Len(s) >= 2 /\ s[1] = "[" THEN ReadItems(s, 2, <<>>)
  ELSE SyntaxError

RECURSIVE ReadMembers(_, _, _)
\* the members of an object from position i, where a key has to open
ReadMembers(s, i, acc) ==
  IF i > Len(s) \/ s[i] # "\"" THEN SyntaxError
  ELSE LET key == ReadString(s, i + 1, <<>>)
       IN IF ~key.ok \/ key.next + 1 > Len(s) \/ s[key.next] # ":" \/ s[key.next + 1] # "\""
          THEN SyntaxError
          ELSE LET str == ReadString(s, key.next + 2, <<>>)
                   member == <<key.val, str.val>>
               IN IF ~str.ok \/ str.next > Len(s) THEN SyntaxError
                  ELSE IF s[str.next] = ","
                       THEN ReadMembers(s, str.next + 1, Append(acc, member))
                  ELSE IF s[str.next] = "}" /\ str.next = Len(s)
                       THEN [ok |-> TRUE, val |-> Append(acc, member), next |-> str.next + 1]
                  ELSE SyntaxError

\* JSON.parse of the metadata column
ParseMetadata(s) ==
  IF s = <<"{", "}">> THEN [ok |-> TRUE, val |-> <<>>, next |-> 3]
  ELSE IF Len(s) >= 2 /\ s[1] = "{" THEN ReadMembers(s, 2, <<>>)
  ELSE SyntaxError

\* an optional argument: <<>> when the caller left it out, else <<value>>
Omitted == <<>>
Given(value) == <<value>>

\* `arg || fallback` for an argument that is an array or an object
OrElse(arg, fallback) == IF arg = Omitted THEN fallback ELSE arg[1]

(***************************************************************************)
(* Inputs.                                                                 *)
(***************************************************************************)
AddInputs ==
  { [category |-> "market",     title |-> <<"A", "b">>, body |-> Null,     source |-> Null,
     tags |-> Omitted, metadata |-> Omitted],
    [category |-> "newsletter", title |-> <<"b">>,      body |-> <<"c">>,  source |-> Null,
     tags |-> Given(<< <<"a">>, <<"\"">> >>), metadata |-> Given(<< <<<<"k">>, <<"\\", "v">>>> >>)],
    [category |-> "market",     title |-> <<"b">>,      body |-> Null,     source |-> <<"A">>,
     tags |-> Given(<< <<"b", "A">> >>), metadata |-> Given(<<>>)],
    [category |-> "market",     title |-> Null,         body |-> <<"a">>,  source |-> Null,
     tags |-> Omitted, metadata |-> Omitted] }

\* the arguments of query: category, then the options limit, since and tag
QueryInputs ==
  { [category |-> "all",        limit |-> DefaultLimit, since |-> Omitted,  tag |-> Null],
    [category |-> "all",        limit |-> 1,            since |-> Omitted,  tag |-> Null],
    [category |-> "market",     limit |-> DefaultLimit, since |-> Omitted,  tag |-> Null],
    [category |-> "newsletter", limit |-> DefaultLimit, since |-> Given(1), tag |-> Null],
    [category |-> "all",        limit |-> DefaultLimit, since |-> Omitted,  tag |-> <<"a">>],
    [category |-> "all",        limit |-> DefaultLimit, since |-> Omitted,  tag |-> <<"A">>] }

\* the argument of tags: the category, when the caller gives one
TagsInputs == { Omitted, Given("market") }

\* the options of export: since and category ("" when the caller gives none)
ExportInputs ==
  { [since |-> Omitted,  category |-> ""],
    [since |-> Given(1), category |-> "market"] }

\* the data of addTrade: the ticker is a NOT NULL column
TradeInputs ==
  { [ticker |-> <<"A">>, metadata |-> Given(<< << <<"k">>, <<"v">> >> >>)],
    [ticker |-> Null,    metadata |-> Omitted] }

\* outcome and pnl_cents of resolveTrade; null is a value a caller can pass
ResolveInputs ==
  { [outcome |-> Given("win"),  pnl_cents |-> Given(350)],
    [outcome |-> Given("loss"), pnl_cents |-> Given(-100)],
    [outcome |-> Omitted,       pnl_cents |-> Omitted] }

\* the options of trades: limit, since and resolved
TradesInputs ==
  { [limit |-> DefaultLimit, since |-> Omitted,  resolved |-> Omitted],
    [limit |-> DefaultLimit, since |-> Omitted,  resolved |-> Given(TRUE)],
    [limit |-> DefaultLimit, since |-> Omitted,  resolved |-> Given(FALSE)],
    [limit |-> 1,            since |-> Given(1), resolved |-> Given(TRUE)] }

Queries == { <<"a">>, <<"_">>, <<"c">> }
Limits == {1, 2}
\* the query texts of semantic, whose ranking is the vector index's whatever the
\* text, and of think, whose keyword leg matches some entries or every entry
SemanticQueries == { <<"a">> }
ThinkQueries == { <<"a">>, <<"_">> }
\* distances the vector index may report
Distances == {0, 3}
\* how a gateway call may settle: vectors one per text, a rejection, a value that
\* is no array, an array one vector short
GwOutcomes == {"ok", "throw", "malformed", "short"}

\* the row of preloaded entry i of the bulk store: neighbours differ in title
BulkRow(i) ==
  [id |-> i, category |-> "market",
   title |-> IF i % 2 = 1 THEN <<"b">> ELSE <<"A", "b">>, body |-> Null,
   source |-> Null, tags |-> StringifyTags(<<>>), metadata |-> StringifyMetadata(<<>>),
   created_at |-> 0]

VARIABLES
  embeddingConfig,  \* this.embeddingConfig is set (a provider is configured)
  vecLoaded,        \* this._vecLoaded
  intel,            \* table intel, in rowid order
  intel_vec,        \* table intel_vec: records [intel_id, embedding]
  calls,            \* calls suspended at their await of the gateway
  ret,              \* how the call that settled last ended (idle: taken by the caller)
  addLog,           \* ids returned by add so far, in order
  lastReindex,      \* result of the last reindex if no entry was written since
  addArgs,          \* tags and metadata as each stored entry's add was given them
  trades,           \* table trades, in rowid order
  everResolved      \* ids of the trades a resolveTrade with an outcome has run on

vars ==
  <<embeddingConfig, vecLoaded, intel, intel_vec, calls, ret, addLog, lastReindex, addArgs,
    trades, everResolved>>

(***************************************************************************)
(* Values of calls and ret.                                                *)
(***************************************************************************)
Zero == [n |-> 0, d |-> 1]

NoCall ==
  [op |-> "none", no |-> 0, id |-> 0, title |-> <<>>, text |-> <<>>, missing |-> <<>>, i |-> 0,
   embedded |-> 0, query |-> <<>>, limit |-> 0, kw |-> <<>>, gw |-> <<>>, vec0 |-> 0]

Idle ==
  [op |-> "none", status |-> "idle", error |-> "", id |-> 0, title |-> <<>>, rows |-> <<>>,
   embedded |-> 0, total |-> 0, gw |-> <<>>, vec0 |-> 0, prev |-> <<>>,
   query |-> <<>>, limit |-> 0, kw |-> <<>>, sem |-> <<>>, opts |-> <<>>, stats |-> <<>>]

Ok(op) == [Idle EXCEPT !.op = op, !.status = "ok"]
Fail(op, msg) == [Idle EXCEPT !.op = op, !.status = "error", !.error = msg]

VecIds == { v.intel_id : v \in intel_vec }
Ids == { intel[k].id : k \in 1..Len(intel) }
\* the guard of the embedding steps without its check of the provider
AvailableIndexOnly == vecLoaded

\* this.embeddingConfig && this._vecLoaded
Available == embeddingConfig /\ vecLoaded

\* nothing is in flight and the caller has taken the last result
Quiescent == calls = {} /\ ret.status = "idle"

\* a number that tells a call from the other calls in flight
CallNo == CHOOSE n \in 0..Cardinality(calls) : \A c \in calls : c.no # n

\* the model lets a caller that does not wait have MaxCalls calls in flight
CallRoom == Cardinality(calls) < MaxCalls

(***************************************************************************)
(* Construction.  The constructor opens or creates the database file and   *)
(* decides once whether the extension loaded; a provider is configured or  *)
(* not.  Init is a store created empty; InitBulk opens a file that already *)
(* holds Preloaded entries written while no vector could be stored.        *)
(***************************************************************************)
Init ==
  /\ embeddingConfig \in BOOLEAN
  /\ vecLoaded \in BOOLEAN
  /\ intel = <<>>
  /\ intel_vec = {}
  /\ calls = {}
  /\ ret = Idle
  /\ addLog = <<>>
  /\ lastReindex = <<>>
  /\ addArgs = <<>>
  /\ trades = <<>>
  /\ everResolved = {}

InitBulk ==
  /\ embeddingConfig \in BOOLEAN
  /\ vecLoaded \in BOOLEAN
  /\ intel = [i \in 1..Preloaded |-> BulkRow(i)]
  /\ intel_vec = {}
  /\ calls = {}
  /\ ret = Idle
  /\ addLog = <<>>
  /\ lastReindex = <<>>
  /\ addArgs = [i \in 1..Preloaded |-> [tags |-> Omitted, metadata |-> Omitted]]
  /\ trades = <<>>
  /\ everResolved = {}

(***************************************************************************)
(* The embedding gateway (_embed) and the vector table.                    *)
(***************************************************************************)
\* what `vectors[j]` is when the array has no element j
Undefined == [text |-> <<>>, mode |-> "undefined"]

\* the vector the provider computes for a text in a mode
Vec(text, mode) == [text |-> text, mode |-> mode]

\* how `await this._embed(texts, mode)` settles
Settled(outcome, texts, mode) ==
  [thrown  |-> outcome = "throw",
   isArray |-> outcome \in {"ok", "short"},
   vectors |-> IF outcome = "ok" THEN [j \in 1..Len(texts) |-> Vec(texts[j], mode)]
               ELSE IF outcome = "short"
                    THEN [j \in 1..(Len(texts) - 1) |-> Vec(texts[j], mode)]
                    ELSE <<>>]

\* vectors[j]
At(vectors, j) == IF j \in 1..Len(vectors) THEN vectors[j] ELSE Undefined

\* INSERT INTO intel_vec: the primary key or a vector of the wrong length rejects it
VecInsert(tbl, id, emb) ==
  IF emb = Undefined \/ (\E v \in tbl : v.intel_id = id)
  THEN [ok |-> FALSE, tbl |-> tbl]
  ELSE [ok |-> TRUE, tbl |-> tbl \cup {[intel_id |-> id, embedding |-> emb]}]

\* an upsert that passes over a vector that is not there
VecUpsertSkip(tbl, id, emb, replaces) ==
  IF emb = Undefined \/ (~replaces /\ \E v \in tbl : v.intel_id = id)
  THEN [ok |-> TRUE, tbl |-> tbl]
  ELSE [ok |-> TRUE,
        tbl |-> {v \in tbl : v.intel_id # id} \cup {[intel_id |-> id, embedding |-> emb]}]

\* INSERT OR REPLACE INTO intel_vec. On a key that is already in the table the
\* vec0 virtual table of the extension either replaces the record or rejects the
\* statement with a constraint error, depending on the extension that was loaded
\* (replaces); a vector that is not there rejects it in either case.
VecUpsert(tbl, id, emb, replaces) ==
  IF emb = Undefined \/ (~replaces /\ \E v \in tbl : v.intel_id = id)
  THEN [ok |-> FALSE, tbl |-> tbl]
  ELSE [ok |-> TRUE,
        tbl |-> {v \in tbl : v.intel_id # id} \cup {[intel_id |-> id, embedding |-> emb]}]

(***************************************************************************)
(* add(category, data)                                                     *)
(***************************************************************************)
\* _embed(texts, inputType = 'document'): what a call hands the gateway
Request(texts, inputType) == [texts |-> texts, mode |-> OrElse(inputType, "document")]

\* a request of add that asks for a query vector
AddRequestAsQuery(text) == Request(<<text>>, Given("query"))

\* this._embed([text])
AddRequest(text) == Request(<<text>>, Omitted)

\* this._embed([queryText], 'query') of semantic
SemanticRequest(queryText) == Request(<<queryText>>, Given("query"))

\* this._embed([queryText], 'query') of think
ThinkRequest(queryText) == Request(<<queryText>>, Given("query"))

\* this._embed(texts) of reindex
ReindexRequest(texts) == Request(texts, Omitted)

\* a catch that gives the vector index up when the step it guards failed
CaughtSwitchesOff(loaded, failed) == loaded /\ ~failed

\* catch (e) { /* ... */ }: the catch blocks of add, think and reindex are empty,
\* this._vecLoaded is what it was whether the guarded step failed or not
Caught(loaded, failed) == loaded

\* add without its check of the title
TitleAny(title) == TRUE

\* if (!title) throw new Error('title is required')
TitleGiven(title) == title # Null

\* a rowid that is handed out again
NextRowidReused(tbl) == IF tbl = <<>> THEN 1 ELSE tbl[Len(tbl)].id

\* id INTEGER PRIMARY KEY AUTOINCREMENT, no row is ever deleted
NextRowid(tbl) == IF tbl = <<>> THEN 1 ELSE tbl[Len(tbl)].id + 1

\* created_at DEFAULT (datetime('now')): the clock does not run backwards
Clock(tbl) == { t \in 0..MaxClock : tbl = <<>> \/ t >= tbl[Len(tbl)].created_at }

\* the model stops accepting adds when the store is full
AddRoom ==
  IF Len(intel) >= Preloaded THEN Len(intel) < Preloaded + MaxBulkAdds
  ELSE Len(intel) < MaxAdds

\* add with a failing embedding step, had it no catch around that step
AddReturnRethrow(id, embedFailed) ==
  IF embedFailed THEN Fail("add", "embedding failed") ELSE [Ok("add") EXCEPT !.id = id]

\* the value add settles with: the catch around the embedding step swallows its failure
AddReturn(id, embedFailed) == [Ok("add") EXCEPT !.id = id]

\* the vector stored under another id than the entry's
AddVectorIdOff(id) == id + 1

\* the vector add stores under the new id
AddVectorId(id) == id

AddBegin(d, t) ==
  IF ~TitleGiven(d.title)
  THEN /\ ret' = [Fail("add", "title is required") EXCEPT !.title = d.title]
       /\ UNCHANGED <<trades, everResolved, addArgs, embeddingConfig, vecLoaded, intel,
                      intel_vec, calls, addLog, lastReindex>>
  ELSE LET id == NextRowid(intel)
           row == [id |-> id, category |-> d.category, title |-> d.title,
                   body |-> d.body, source |-> d.source,
                   tags |-> StringifyTags(OrElse(d.tags, <<>>)),
                   metadata |-> StringifyMetadata(OrElse(d.metadata, <<>>)),
                   created_at |-> t]
       IN /\ AddRoom
          /\ intel' = Append(intel, row)
          /\ addArgs' = Append(addArgs, [tags |-> d.tags, metadata |-> d.metadata])
          /\ lastReindex' = <<>>
          /\ IF Available
             THEN /\ calls' = calls \cup
                       {[NoCall EXCEPT !.op = "add", !.id = id, !.title = d.title,
                                       !.text = ComposeText(d.title, d.body)]}
                  /\ UNCHANGED <<ret, addLog>>
             ELSE /\ ret' = [AddReturn(id, FALSE) EXCEPT !.title = d.title]
                  /\ addLog' = Append(addLog, id)
                  /\ UNCHANGED calls
          /\ UNCHANGED <<trades, everResolved, embeddingConfig, vecLoaded, intel_vec>>

\* after `await this._embed([text])` settled
AddFinish(c, outcome) ==
  LET req == AddRequest(c.text)
      resp == Settled(outcome, req.texts, req.mode)
      ins == IF resp.thrown \/ ~resp.isArray
             THEN [ok |-> FALSE, tbl |-> intel_vec]
             ELSE VecInsert(intel_vec, AddVectorId(c.id), At(resp.vectors, 1))
  IN /\ intel_vec' = ins.tbl
     /\ calls' = calls \ {c}
     /\ ret' = [AddReturn(c.id, ~ins.ok) EXCEPT
                 !.title = c.title,
                 !.gw = <<[mode |-> req.mode, n |-> Len(req.texts), landed |-> ins.ok,
                          outcome |-> outcome, first |-> At(req.texts, 1)]>>]
     /\ addLog' = IF AddReturn(c.id, ~ins.ok).status = "ok" THEN Append(addLog, c.id) ELSE addLog
     /\ vecLoaded' = Caught(vecLoaded, ~ins.ok)
     /\ UNCHANGED <<trades, everResolved, addArgs, embeddingConfig, intel, lastReindex>>

Add == Quiescent /\ \E d \in AddInputs : \E t \in Clock(intel) : AddBegin(d, t)

AddResume == \E c \in calls : c.op = "add" /\ \E o \in GwOutcomes : AddFinish(c, o)

\* the caller takes the settled result
Take ==
  /\ ret.status # "idle"
  /\ ret' = Idle
  /\ UNCHANGED <<trades, everResolved, addArgs, embeddingConfig, vecLoaded, intel,
                 intel_vec, calls, addLog, lastReindex>>

(***************************************************************************)
(* Helpers on sequences and on scores (exact fractions n/d, d > 0).        *)
(***************************************************************************)
RECURSIVE Perms(_)
\* every ordering of a finite set
Perms(S) ==
  IF S = {} THEN {<<>>}
  ELSE UNION { { <<x>> \o p : p \in Perms(S \ {x}) } : x \in S }

Take1(s, n) == SubSeq(s, 1, Min(n, Len(s)))

Ge(a, b) == a.n * b.d >= b.n * a.d
Gt(a, b) == a.n * b.d > b.n * a.d

\* Array.prototype.sort((a, b) => b.score - a.score) is stable: insert x behind
\* every element that does not score lower
InsertDesc(t, x) ==
  LET k == Cardinality({ j \in 1..Len(t) : Ge(t[j].score, x.score) })
  IN SubSeq(t, 1, k) \o <<x>> \o SubSeq(t, k + 1, Len(t))

RECURSIVE SortDesc(_)
SortDesc(s) ==
  IF s = <<>> THEN <<>>
  ELSE InsertDesc(SortDesc(SubSeq(s, 1, Len(s) - 1)), s[Len(s)])

\* SELECT * FROM intel WHERE id IN (...): the rows, in rowid order
RowsById(tbl, ids) == SelectSeq(tbl, LAMBDA r : r.id \in ids)

\* r.tags = JSON.parse(r.tags); r.metadata = JSON.parse(r.metadata)
Deserialized(r) ==
  [r EXCEPT !.tags = ParseTags(r.tags).val, !.metadata = ParseMetadata(r.metadata).val]

\* rows.forEach(r => { ... }) on the rows a read is about to return: the first
\* column that is no JSON text makes the read throw
Parsed(res) ==
  IF \A j \in 1..Len(res.rows) :
        ParseTags(res.rows[j].row.tags).ok /\ ParseMetadata(res.rows[j].row.metadata).ok
  THEN [res EXCEPT !.rows = [j \in 1..Len(res.rows) |->
                               [res.rows[j] EXCEPT !.row = Deserialized(res.rows[j].row)]]]
  ELSE [res EXCEPT !.status = "error", !.error = "SyntaxError", !.rows = <<>>]

\* rows that are the stored rows themselves: parsing them rewrites the table
RowsShared(tbl) == [k \in 1..Len(tbl) |-> Deserialized(tbl[k])]

\* .all() hands out fresh row objects: rows.forEach(r => { r.tags = ...; }) assigns
\* to those and the table is what it was
RowsCopied(tbl) == tbl

(***************************************************************************)
(* search(text, limit)                                                     *)
(***************************************************************************)
\* the search without its source column
SearchWhereNoSource(r, text) == ColLike(r.title, text) \/ ColLike(r.body, text)

\* WHERE title LIKE ? OR body LIKE ? OR source LIKE ?
SearchWhere(r, text) ==
  ColLike(r.title, text) \/ ColLike(r.body, text) \/ ColLike(r.source, text)

\* the select without its ORDER BY
AnyOrder(tbl, keep) == Perms(keep)

\* ORDER BY created_at DESC: rows of equal created_at come in any order
NewestFirst(tbl, keep) ==
  { p \in Perms(keep) :
      \A j \in 1..(Len(p) - 1) : tbl[p[j]].created_at >= tbl[p[j + 1]].created_at }

Search ==
  /\ Quiescent
  /\ \E text \in Queries : \E limit \in Limits :
       \E p \in NewestFirst(intel, { k \in 1..Len(intel) : SearchWhere(intel[k], text) }) :
         ret' = Parsed([Ok("search") EXCEPT
                   !.rows = [j \in 1..Min(limit, Len(p)) |-> [row |-> intel[p[j]], score |-> Zero]],
                   !.query = text, !.limit = limit])
  /\ intel' = RowsCopied(intel)
  /\ UNCHANGED <<trades, everResolved, addArgs, embeddingConfig, vecLoaded, intel_vec,
                 calls, addLog, lastReindex>>

(***************************************************************************)
(* query(category, options)                                                *)
(***************************************************************************)
\* the tag filter as membership in the stored tag list
TagCarried(r, tag) ==
  \E j \in 1..Len(ParseTags(r.tags).val) : ParseTags(r.tags).val[j] = tag

\* the tag filter as a substring of the column, without the quotes around the tag
TagLikeUnquoted(r, tag) == ColLike(r.tags, tag)

\* params.push(`%"${tag}"%`) under tags LIKE ?
TagLike(r, tag) == ColLike(r.tags, <<"\"">> \o tag \o <<"\"">>)

\* created_at >= ?, when the option is given
Since(r, since) == since = Omitted \/ r.created_at >= since[1]

\* the conditions of query without the one on the category
QueryWhereAnyCategory(r, q) ==
  /\ Since(r, q.since)
  /\ q.tag # Null => TagLike(r, q.tag)

\* the conditions query adds to WHERE 1=1
QueryWhere(r, q) ==
  /\ (q.category # "" /\ q.category # "all") => r.category = q.category
  /\ Since(r, q.since)
  /\ q.tag # Null => TagLike(r, q.tag)

Query ==
  /\ Quiescent
  /\ \E q \in QueryInputs :
       \E p \in NewestFirst(intel, { k \in 1..Len(intel) : QueryWhere(intel[k], q) }) :
         ret' = Parsed([Ok("query") EXCEPT
                   !.rows = [j \in 1..Min(q.limit, Len(p)) |-> [row |-> intel[p[j]], score |-> Zero]],
                   !.limit = q.limit, !.opts = <<q>>])
  /\ intel' = RowsCopied(intel)
  /\ UNCHANGED <<trades, everResolved, addArgs, embeddingConfig, vecLoaded, intel_vec,
                 calls, addLog, lastReindex>>

(***************************************************************************)
(* export(options)                                                         *)
(***************************************************************************)
\* the conditions export adds to WHERE 1=1
ExportWhere(r, x) ==
  /\ Since(r, x.since)
  /\ x.category # "" => r.category = x.category

\* ORDER BY created_at ASC: rows of equal created_at come in any order
OldestFirst(tbl, keep) ==
  { p \in Perms(keep) :
      \A j \in 1..(Len(p) - 1) : tbl[p[j]].created_at <= tbl[p[j + 1]].created_at }

Export ==
  /\ Quiescent
  /\ \E x \in ExportInputs :
       \E p \in OldestFirst(intel, { k \in 1..Len(intel) : ExportWhere(intel[k], x) }) :
         ret' = Parsed([Ok("export") EXCEPT
                   !.rows = [j \in 1..Len(p) |-> [row |-> intel[p[j]], score |-> Zero]],
                   !.opts = <<x>>])
  /\ intel' = RowsCopied(intel)
  /\ UNCHANGED <<trades, everResolved, addArgs, embeddingConfig, vecLoaded, intel_vec,
                 calls, addLog, lastReindex>>

(***************************************************************************)
(* The vector index query                                                  *)
(*   SELECT intel_id, distance FROM intel_vec                              *)
(*   WHERE embedding MATCH ? ORDER BY distance LIMIT ?                     *)
(* The distances are the extension's: any values, reported nearest first.  *)
(***************************************************************************)
Nearest(tbl, limit) ==
  LET V == { v.intel_id : v \in tbl }
      k == Min(limit, Cardinality(V))
  IN UNION { UNION { { [j \in 1..k |-> [intel_id |-> p[j], distance |-> ds[j]]] :
                         ds \in { f \in [1..k -> Distances] :
                                    \A j \in 1..(k - 1) : f[j] <= f[j + 1] } } :
                     p \in Perms(S) } :
             S \in { T \in SUBSET V : Cardinality(T) = k } }

\* 1 / (1 + distance)
Similarity(distance) == [n |-> 1, d |-> 1 + distance]

(***************************************************************************)
(* semantic(queryText, limit)                                              *)
(***************************************************************************)
\* the opening checks without the one on this._vecLoaded
PreconditionProviderOnly(vecMessage) ==
  IF ~embeddingConfig THEN "No embedding provider configured" ELSE ""

\* the two checks that open semantic and reindex; the result is the message of
\* the Error thrown ("" when neither throws), its dash written in ASCII
Precondition(vecMessage) ==
  IF ~embeddingConfig THEN "No embedding provider configured"
  ELSE IF ~vecLoaded THEN vecMessage
  ELSE ""

SemanticBegin(text, limit) ==
  LET msg == Precondition("sqlite-vec not loaded - semantic search unavailable")
  IN /\ IF msg # ""
        THEN ret' = Fail("semantic", msg) /\ UNCHANGED calls
        ELSE /\ calls' = calls \cup
                  {[NoCall EXCEPT !.op = "semantic", !.query = text, !.limit = limit]}
             /\ UNCHANGED ret
     /\ UNCHANGED <<trades, everResolved, addArgs, embeddingConfig, vecLoaded, intel,
                    intel_vec, addLog, lastReindex>>

\* the rows as the id lookup hands them over, without the sort on similarity
SemanticRowsUnsorted(vecResults) ==
  LET rows == RowsById(intel, { vecResults[j].intel_id : j \in 1..Len(vecResults) })
  IN [j \in 1..Len(rows) |->
        [row |-> rows[j],
         score |-> Similarity(vecResults[CHOOSE k \in 1..Len(vecResults) :
                                           vecResults[k].intel_id = rows[j].id].distance)]]

\* the rows semantic returns for the index's answer
SemanticRows(vecResults) ==
  LET ids == { vecResults[j].intel_id : j \in 1..Len(vecResults) }
      dist(id) == (CHOOSE j \in 1..Len(vecResults) : vecResults[j].intel_id = id)
      rows == RowsById(intel, ids)
  IN SortDesc([j \in 1..Len(rows) |->
                 [row |-> rows[j],
                  score |-> Similarity(vecResults[dist(rows[j].id)].distance)]])

\* semantic with a catch around its gateway call
SemanticErrorSwallowed(resp) == ""

\* what semantic throws behind its gateway call, "" when nothing: the rejection
\* of the gateway as it is, a TypeError when the answer cannot be destructured,
\* the index's error when there is no query vector to match
SemanticError(resp) ==
  IF resp.thrown THEN "embedding failed"
  ELSE IF ~resp.isArray THEN "TypeError"
  ELSE IF At(resp.vectors, 1) = Undefined THEN "SqliteError"
  ELSE ""

SemanticFinish(c, outcome, vecResults) ==
  LET req == SemanticRequest(c.query)
      resp == Settled(outcome, req.texts, req.mode)
      log == <<[mode |-> req.mode, n |-> Len(req.texts), landed |-> outcome = "ok",
                outcome |-> outcome, first |-> At(req.texts, 1)]>>
      base == [Idle EXCEPT !.op = "semantic", !.query = c.query, !.limit = c.limit, !.gw = log]
  IN /\ calls' = calls \ {c}
     /\ ret' = IF SemanticError(resp) # ""
               THEN [base EXCEPT !.status = "error", !.error = SemanticError(resp)]
               ELSE Parsed([base EXCEPT !.status = "ok", !.sem = vecResults,
                                        !.rows = SemanticRows(vecResults)])
     /\ UNCHANGED <<trades, everResolved, addArgs, embeddingConfig, vecLoaded, intel,
                    intel_vec, addLog, lastReindex>>

Semantic ==
  Quiescent /\ \E text \in SemanticQueries : \E limit \in Limits : SemanticBegin(text, limit)

SemanticResume ==
  \E c \in calls :
    /\ c.op = "semantic"
    /\ \E o \in GwOutcomes :
         IF o = "ok" THEN \E res \in Nearest(intel_vec, c.limit) : SemanticFinish(c, o, res)
         ELSE SemanticFinish(c, o, <<>>)

(***************************************************************************)
(* think(queryText, limit)                                                 *)
(***************************************************************************)
\* WHERE title LIKE ? OR body LIKE ?
ThinkWhere(r, text) == ColLike(r.title, text) \/ ColLike(r.body, text)

\* SELECT id, title, body FROM intel WHERE ... LIMIT limit * 2: the ids, as the
\* table scan meets them
KeywordPool(tbl, text, limit) ==
  LET hits == SelectSeq(tbl, LAMBDA r : ThinkWhere(r, text))
  IN [j \in 1..Min(2 * limit, Len(hits)) |-> hits[j].id]

\* the larger of the two terms instead of their sum
FuseScoreMax(inKw, vecScore) ==
  IF inKw /\ KeywordWeight * vecScore.d > SemanticWeight * vecScore.n
  THEN [n |-> KeywordWeight, d |-> WeightDen]
  ELSE [n |-> SemanticWeight * vecScore.n, d |-> WeightDen * vecScore.d]

\* 0.7 * vecScore + kwScore, kwScore = 0.3 for an id of the keyword pool, else 0
FuseScore(inKw, vecScore) ==
  [n |-> SemanticWeight * vecScore.n + (IF inKw THEN KeywordWeight * vecScore.d ELSE 0),
   d |-> WeightDen * vecScore.d]

\* vecScores.get(id) || 0
VecScore(vecResults, id) ==
  IF \E j \in 1..Len(vecResults) : vecResults[j].intel_id = id
  THEN Similarity(vecResults[CHOOSE j \in 1..Len(vecResults) : vecResults[j].intel_id = id].distance)
  ELSE Zero

\* the scored ids in the order of the set, without the sort on the score
ScoredUnsorted(kw, vecResults) ==
  LET kwIds == { kw[j] : j \in 1..Len(kw) }
      vecOnly == SelectSeq(vecResults, LAMBDA r : r.intel_id \notin kwIds)
      allIds == kw \o [j \in 1..Len(vecOnly) |-> vecOnly[j].intel_id]
  IN [j \in 1..Len(allIds) |->
        [id |-> allIds[j],
         score |-> FuseScore(allIds[j] \in kwIds, VecScore(vecResults, allIds[j]))]]

\* the scored ids, best first: new Set([...kwSet.keys(), ...vecScores.keys()])
Scored(kw, vecResults) ==
  LET kwIds == { kw[j] : j \in 1..Len(kw) }
      vecOnly == SelectSeq(vecResults, LAMBDA r : r.intel_id \notin kwIds)
      allIds == kw \o [j \in 1..Len(vecOnly) |-> vecOnly[j].intel_id]
  IN SortDesc([j \in 1..Len(allIds) |->
                 [id |-> allIds[j],
                  score |-> FuseScore(allIds[j] \in kwIds, VecScore(vecResults, allIds[j]))]])

\* the rows think returns
ThinkRows(kw, vecResults, limit) ==
  LET scored == Scored(kw, vecResults)
      top == Take1(scored, limit)
      topIds == { top[j].id : j \in 1..Len(top) }
      rows == RowsById(intel, topIds)
      scoreOf(id) == scored[CHOOSE j \in 1..Len(scored) : scored[j].id = id].score
  IN SortDesc([j \in 1..Len(rows) |-> [row |-> rows[j], score |-> scoreOf(rows[j].id)]])

\* the semantic pool think ends up with: the catch empties it when the leg failed
SemanticPool(legFailed, vecResults) == IF legFailed THEN <<>> ELSE vecResults

\* think, had it no catch around its semantic leg
ThinkReturnRethrow(text, limit, kw, pool, log) ==
  IF log # <<>> /\ ~log[1].landed
  THEN [Fail("think", "embedding failed") EXCEPT !.query = text, !.limit = limit, !.gw = log]
  ELSE [Ok("think") EXCEPT !.query = text, !.limit = limit, !.kw = kw, !.sem = pool,
                           !.gw = log, !.rows = ThinkRows(kw, pool, limit)]

ThinkReturn(text, limit, kw, pool, log) ==
  Parsed([Ok("think") EXCEPT !.query = text, !.limit = limit, !.kw = kw, !.sem = pool,
                             !.gw = log, !.rows = ThinkRows(kw, pool, limit)])

ThinkBegin(text, limit) ==
  LET kw == KeywordPool(intel, text, limit)
  IN /\ IF Available
        THEN /\ calls' = calls \cup
                  {[NoCall EXCEPT !.op = "think", !.query = text, !.limit = limit, !.kw = kw]}
             /\ UNCHANGED ret
        ELSE /\ ret' = ThinkReturn(text, limit, kw, <<>>, <<>>)
             /\ UNCHANGED calls
     /\ UNCHANGED <<trades, everResolved, addArgs, embeddingConfig, vecLoaded, intel,
                    intel_vec, addLog, lastReindex>>

ThinkFinish(c, outcome, vecResults) ==
  LET req == ThinkRequest(c.query)
      resp == Settled(outcome, req.texts, req.mode)
      legFailed == resp.thrown \/ ~resp.isArray \/ At(resp.vectors, 1) = Undefined
      log == <<[mode |-> req.mode, n |-> Len(req.texts), landed |-> ~legFailed,
                outcome |-> outcome, first |-> At(req.texts, 1)]>>
  IN /\ calls' = calls \ {c}
     /\ ret' = ThinkReturn(c.query, c.limit, c.kw, SemanticPool(legFailed, vecResults), log)
     /\ vecLoaded' = Caught(vecLoaded, legFailed)
     /\ UNCHANGED <<trades, everResolved, addArgs, embeddingConfig, intel, intel_vec,
                    addLog, lastReindex>>

Think == Quiescent /\ \E text \in ThinkQueries : \E limit \in Limits : ThinkBegin(text, limit)

ThinkResume ==
  \E c \in calls :
    /\ c.op = "think"
    /\ \E o \in GwOutcomes :
         IF o = "ok" THEN \E res \in Nearest(intel_vec, 2 * c.limit) : ThinkFinish(c, o, res)
         ELSE ThinkFinish(c, o, <<>>)

(***************************************************************************)
(* reindex()                                                               *)
(***************************************************************************)
\* the select without its anti-join
MissingAll(tbl, vec) == tbl

\* SELECT i.id, i.title, i.body FROM intel i LEFT JOIN intel_vec v
\* ON i.id = v.intel_id WHERE v.intel_id IS NULL
Missing(tbl, vec) ==
  LET have == { v.intel_id : v \in vec }
  IN SelectSeq(tbl, LAMBDA r : r.id \notin have)

\* missing.slice(i, i + batchSize)
Batch(missing, i) == SubSeq(missing, i + 1, Min(i + batchSize, Len(missing)))

RECURSIVE UpsertRange(_, _, _, _, _, _)
\* batch.forEach((entry, j) => insert.run(entry.id, vectors[j])) over entries
\* lo..hi, in order: the first insert that throws ends the loop
UpsertRange(tbl, batch, vectors, lo, hi, replaces) ==
  IF lo > hi THEN [ok |-> TRUE, tbl |-> tbl]
  ELSE IF lo = hi THEN VecUpsert(tbl, batch[lo].id, At(vectors, lo), replaces)
  ELSE LET mid == (lo + hi) \div 2
           left == UpsertRange(tbl, batch, vectors, lo, mid, replaces)
       IN IF left.ok THEN UpsertRange(left.tbl, batch, vectors, mid + 1, hi, replaces)
          ELSE left

\* the vectors of a batch handed to its entries back to front
UpsertFromReversed(tbl, batch, vectors, replaces) ==
  UpsertRange(tbl, batch, [j \in 1..Len(vectors) |-> vectors[Len(vectors) + 1 - j]],
              1, Len(batch), replaces)

UpsertFrom(tbl, batch, vectors, replaces) ==
  UpsertRange(tbl, batch, vectors, 1, Len(batch), replaces)

\* the inserts run outside a transaction: nothing is rolled back
NoRollback(before, ran) == ran

\* this.db.transaction(...)(): what the table holds after the body ran from before
Transaction(before, ran) == IF ran.ok THEN ran ELSE [ok |-> FALSE, tbl |-> before]

\* embedded += batch.length, reached only when the batch's try block completed
Embedded(embedded, batch, landed) == IF landed THEN embedded + Len(batch) ELSE embedded

ReindexReturn(embedded, total) == [Ok("reindex") EXCEPT !.embedded = embedded, !.total = total]

ReindexBegin ==
  LET msg == Precondition("sqlite-vec not loaded")
      missing == Missing(intel, intel_vec)
  IN /\ IF msg # ""
        THEN /\ ret' = Fail("reindex", msg)
             /\ UNCHANGED <<calls, lastReindex>>
        ELSE IF Len(missing) = 0
        THEN /\ ret' = [ReindexReturn(0, 0) EXCEPT !.prev = lastReindex,
                                                    !.vec0 = Cardinality(intel_vec)]
             /\ lastReindex' = <<[embedded |-> 0, total |-> 0]>>
             /\ UNCHANGED calls
        ELSE /\ calls' = calls \cup
                  {[NoCall EXCEPT !.op = "reindex", !.no = CallNo, !.missing = missing,
                                  !.vec0 = Cardinality(intel_vec)]}
             /\ UNCHANGED <<ret, lastReindex>>
     /\ UNCHANGED <<trades, everResolved, addArgs, embeddingConfig, vecLoaded, intel,
                    intel_vec, addLog>>

\* a loop that stays on a batch until it landed
NextOffsetRetry(i, landed) == IF landed THEN i + batchSize ELSE i

\* i += batchSize, whether the batch landed or not
NextOffset(i, landed) == i + batchSize

\* after `await this._embed(texts)` of the batch at offset c.i settled
ReindexBatch(c, outcome, replaces) ==
  LET batch == Batch(c.missing, c.i)
      texts == [j \in 1..Len(batch) |-> ComposeText(batch[j].title, batch[j].body)]
      req == ReindexRequest(texts)
      resp == Settled(outcome, req.texts, req.mode)
      tx == IF resp.thrown \/ ~resp.isArray
            THEN [ok |-> FALSE, tbl |-> intel_vec]
            ELSE Transaction(intel_vec, UpsertFrom(intel_vec, batch, resp.vectors, replaces))
      embedded == Embedded(c.embedded, batch, tx.ok)
      log == Append(c.gw, [mode |-> req.mode, n |-> Len(req.texts), landed |-> tx.ok,
                           outcome |-> outcome, first |-> At(req.texts, 1)])
      i == NextOffset(c.i, tx.ok)
  IN /\ intel_vec' = tx.tbl
     /\ IF i < Len(c.missing)
        THEN /\ calls' = (calls \ {c}) \cup {[c EXCEPT !.i = i, !.embedded = embedded, !.gw = log]}
             /\ UNCHANGED <<ret, lastReindex>>
        ELSE /\ calls' = calls \ {c}
             /\ ret' = [ReindexReturn(embedded, Len(c.missing)) EXCEPT
                          !.gw = log, !.vec0 = c.vec0, !.prev = lastReindex]
             /\ lastReindex' = <<[embedded |-> embedded, total |-> Len(c.missing)]>>
     /\ vecLoaded' = Caught(vecLoaded, ~tx.ok)
     /\ UNCHANGED <<trades, everResolved, addArgs, embeddingConfig, intel, addLog>>

Reindex == Quiescent /\ ReindexBegin

\* what the table may do with OR REPLACE where the pending batch of c meets a
\* key that is in the table: replace or reject; without such a key it inserts
Replacing(c) ==
  IF \E j \in (c.i + 1)..Min(c.i + batchSize, Len(c.missing)) : c.missing[j].id \in VecIds
  THEN BOOLEAN ELSE {TRUE}

ReindexResume ==
  \E c \in calls : c.op = "reindex" /\
     \E o \in GwOutcomes : \E replaces \in Replacing(c) : ReindexBatch(c, o, replaces)

(***************************************************************************)
(* The trade journal: addTrade, resolveTrade, trades                       *)
(***************************************************************************)
TradeIds == { trades[k].id : k \in 1..Len(trades) }

\* placed_at DEFAULT (datetime('now')) and resolved_at = datetime('now'): the
\* clock is behind no timestamp already written
TradeClock ==
  { t \in 0..MaxClock :
      \A k \in 1..Len(trades) :
         /\ t >= trades[k].placed_at
         /\ trades[k].resolved_at # Omitted => t >= trades[k].resolved_at[1] }

AddTrade ==
  /\ Quiescent
  /\ \E d \in TradeInputs : \E t \in TradeClock :
       IF d.ticker = Null
       THEN /\ ret' = Fail("addTrade", "SqliteError")
            /\ UNCHANGED trades
       ELSE LET id == NextRowid(trades)
            IN /\ Len(trades) < MaxTrades
               /\ trades' = Append(trades,
                     [id |-> id, ticker |-> d.ticker, outcome |-> Omitted, pnl_cents |-> Omitted,
                      placed_at |-> t, resolved_at |-> Omitted,
                      metadata |-> StringifyMetadata(OrElse(d.metadata, <<>>))])
               /\ ret' = [Ok("addTrade") EXCEPT !.id = id]
  /\ UNCHANGED <<everResolved, addArgs, embeddingConfig, vecLoaded, intel, intel_vec, calls,
                 addLog, lastReindex>>

\* UPDATE trades SET outcome = ?, pnl_cents = ?, resolved_at = datetime('now')
\* on the row WHERE id = ?
Update(r, x, t) ==
  [r EXCEPT !.outcome = x.outcome, !.pnl_cents = x.pnl_cents, !.resolved_at = Given(t)]

ResolveTrade ==
  /\ Quiescent
  /\ \E id \in 1..(MaxTrades + 1) : \E x \in ResolveInputs : \E t \in TradeClock :
       /\ trades' = [k \in 1..Len(trades) |->
                       IF trades[k].id = id THEN Update(trades[k], x, t) ELSE trades[k]]
       /\ everResolved' = IF id \in TradeIds /\ x.outcome # Omitted
                          THEN everResolved \cup {id} ELSE everResolved
       /\ ret' = [Ok("resolveTrade") EXCEPT !.id = id, !.opts = <<x>>]
  /\ UNCHANGED <<addArgs, embeddingConfig, vecLoaded, intel, intel_vec, calls, addLog,
                 lastReindex>>

\* the conditions trades adds to WHERE 1=1
TradesWhere(r, o) ==
  /\ o.since = Omitted \/ r.placed_at >= o.since[1]
  /\ o.resolved = Given(TRUE) => r.outcome # Omitted
  /\ o.resolved = Given(FALSE) => r.outcome = Omitted

\* ORDER BY placed_at DESC: rows of equal placed_at come in any order
PlacedNewestFirst(tbl, keep) ==
  { p \in Perms(keep) :
      \A j \in 1..(Len(p) - 1) : tbl[p[j]].placed_at >= tbl[p[j + 1]].placed_at }

\* rows.forEach(r => r.metadata = JSON.parse(r.metadata))
TradesParsed(res) ==
  IF \A j \in 1..Len(res.rows) : ParseMetadata(res.rows[j].row.metadata).ok
  THEN [res EXCEPT !.rows = [j \in 1..Len(res.rows) |->
                               [res.rows[j] EXCEPT
                                  !.row.metadata = ParseMetadata(res.rows[j].row.metadata).val]]]
  ELSE [res EXCEPT !.status = "error", !.error = "SyntaxError", !.rows = <<>>]

Trades ==
  /\ Quiescent
  /\ \E o \in TradesInputs :
       \E p \in PlacedNewestFirst(trades, { k \in 1..Len(trades) : TradesWhere(trades[k], o) }) :
         ret' = TradesParsed([Ok("trades") EXCEPT
                   !.rows = [j \in 1..Min(o.limit, Len(p)) |-> [row |-> trades[p[j]], score |-> Zero]],
                   !.limit = o.limit, !.opts = <<o>>])
  /\ UNCHANGED <<trades, everResolved, addArgs, embeddingConfig, vecLoaded, intel,
                 intel_vec, calls, addLog, lastReindex>>

(***************************************************************************)
(* stats(): the counts of entries, vectors and trades (the per-category    *)
(* counts and the actionable count are left out with their columns)        *)
(***************************************************************************)
RECURSIVE Sum(_)
Sum(s) == IF s = <<>> THEN 0 ELSE Head(s) + Sum(Tail(s))

\* SUM(...) of SQL: NULL over no rows
SqlSum(s) == IF s = <<>> THEN Omitted ELSE Given(Sum(s))

\* let vectored = { count: 0 }; if (this._vecLoaded) { ... COUNT(*) FROM intel_vec ... }
Vectored == IF vecLoaded THEN Cardinality(intel_vec) ELSE 0

Stats ==
  /\ Quiescent
  /\ ret' = [Ok("stats") EXCEPT
               !.stats = <<[total |-> Len(intel),
                            vectored |-> Vectored,
                            vecEnabled |-> vecLoaded,
                            trades |->
                              [total |-> Len(trades),
                               resolved |-> SqlSum([k \in 1..Len(trades) |->
                                               IF trades[k].outcome # Omitted THEN 1 ELSE 0]),
                               total_pnl_cents |-> SqlSum([k \in 1..Len(trades) |->
                                               OrElse(trades[k].pnl_cents, 0)])]]>>]
  /\ UNCHANGED <<trades, everResolved, addArgs, embeddingConfig, vecLoaded, intel,
                 intel_vec, calls, addLog, lastReindex>>

(***************************************************************************)
(* tags(category)                                                          *)
(***************************************************************************)
RECURSIVE Flat(_)
\* the elements of the lists of s, list after list
Flat(s) == IF s = <<>> THEN <<>> ELSE Head(s) \o Flat(Tail(s))

\* rows.forEach(r => JSON.parse(r.tags).forEach(t => { tagCounts[t] = ... + 1 })),
\* the rows in rowid order, then Object.entries(tagCounts): the tags in the order
\* of their first occurrence (no tag of the model is an integer key), each with
\* the number of its occurrences
TagCounts(rows) ==
  LET all == Flat([k \in 1..Len(rows) |-> ParseTags(rows[k].tags).val])
      first == SelectSeq([j \in 1..Len(all) |-> j],
                         LAMBDA j : \A i \in 1..(j - 1) : all[i] # all[j])
  IN [m \in 1..Len(first) |->
        LET count == Cardinality({ i \in 1..Len(all) : all[i] = all[first[m]] })
        IN [row |-> [tag |-> all[first[m]], count |-> count],
            score |-> [n |-> count, d |-> 1]]]

\* if (category) { sql += ' WHERE category = ?' }
TagsWhere(r, category) == category = Omitted \/ r.category = category[1]

\* .sort((a, b) => b[1] - a[1]): by count, the larger first
Tags ==
  /\ Quiescent
  /\ \E category \in TagsInputs :
       ret' = [Ok("tags") EXCEPT
                 !.rows = SortDesc(TagCounts(SelectSeq(intel,
                                       LAMBDA r : TagsWhere(r, category)))),
                 !.opts = <<category>>]
  /\ UNCHANGED <<trades, everResolved, addArgs, embeddingConfig, vecLoaded, intel,
                 intel_vec, calls, addLog, lastReindex>>

(***************************************************************************)
(* Specifications.  The caller issues one call at a time (the store has no *)
(* locking of its own).  Spec is a store created empty; SpecBulk is the    *)
(* store opened on a file of Preloaded entries, under the writing calls;   *)
(* SpecTrades is the trade journal of a store created empty, the journal   *)
(* sharing no table with the entries.                                      *)
(***************************************************************************)
Next ==
  \/ Add
  \/ AddResume
  \/ Query
  \/ Search
  \/ Export
  \/ Semantic
  \/ SemanticResume
  \/ Think
  \/ ThinkResume
  \/ Reindex
  \/ ReindexResume
  \/ Stats
  \/ Tags
  \/ Take

Spec == Init /\ [][Next]_vars

\* A caller that issues add and reindex without waiting for the calls in flight.
\* What matters is the order of the steps, so the adds are those without tags
\* and metadata, the calls fall within one second of the clock, the gateway
\* answers in full or not at all, and each result is taken when it is there.
Answers == {"ok", "throw"}

AddOverlapped ==
  /\ CallRoom /\ ret.status = "idle"
  /\ \E d \in { x \in AddInputs : x.tags = Omitted /\ x.metadata = Omitted } :
        \E t \in Clock(intel) : (\A u \in Clock(intel) : t <= u) /\ AddBegin(d, t)

AddSettles ==
  /\ ret.status = "idle"
  /\ \E c \in calls : c.op = "add" /\ \E o \in Answers : AddFinish(c, o)

ReindexOverlapped == CallRoom /\ ret.status = "idle" /\ ReindexBegin

ReindexSettles ==
  /\ ret.status = "idle"
  /\ \E c \in calls : c.op = "reindex" /\
        \E o \in Answers : \E replaces \in Replacing(c) : ReindexBatch(c, o, replaces)

NextOverlapped ==
  \/ AddOverlapped
  \/ AddSettles
  \/ ReindexOverlapped
  \/ ReindexSettles
  \/ Take

SpecOverlapped == Init /\ [][NextOverlapped]_vars

NextBulk ==
  \/ Add
  \/ AddResume
  \/ Reindex
  \/ ReindexResume
  \/ Take

SpecBulk == InitBulk /\ [][NextBulk]_vars

NextTrades ==
  \/ AddTrade
  \/ ResolveTrade
  \/ Trades
  \/ Stats
  \/ Take

SpecTrades == Init /\ [][NextTrades]_vars

(***************************************************************************)
(* Properties.                                                             *)
(***************************************************************************)
\* the error kinds of the specification, by what the failure is
ErrorKind(msg) ==
  CASE msg = "title is required" -> "ValidationError"
    [] msg = "No embedding provider configured" -> "ConfigurationError"
    [] msg \in {"sqlite-vec not loaded", "sqlite-vec not loaded - semantic search unavailable"}
         -> "CapabilityError"
    [] msg = "embedding failed" -> "ProviderError"
    [] OTHER -> "Error"

RowIds(rows) == { rows[j].row.id : j \in 1..Len(rows) }

\* C1: an add with a title returns the new id whatever the embedding step did
\* (gateway rejection, malformed answer, failed vector insert); its entry is
\* stored, and lacks a vector record when the step failed.
C1_AddSurvivesEmbedding ==
  (ret.op = "add" /\ ret.title # Null) =>
     /\ ret.status = "ok"
     /\ ret.id = intel[Len(intel)].id
     /\ intel[Len(intel)].title = ret.title
     /\ \A j \in 1..Len(ret.gw) : ~ret.gw[j].landed => ret.id \notin VecIds

C1_Witness ==
  /\ ret.op = "add" /\ ret.status = "ok" /\ ret.gw # <<>>
  /\ ~ret.gw[1].landed /\ ret.id \in Ids /\ ret.id \notin VecIds

\* C2: the ids add returns are positive, strictly increasing and consecutive.
C2_IdsIncrease ==
  \A j \in 1..Len(addLog) :
     /\ addLog[j] > 0
     /\ \A k \in 1..(j - 1) : addLog[k] < addLog[j]
     /\ j > 1 => addLog[j] = addLog[j - 1] + 1

C2_Witness == Len(addLog) >= 2 /\ ret.op = "add" /\ ret.id = addLog[Len(addLog)]

C4_AsStated ==
  ~Available =>
     /\ ret.op = "semantic" => ret.status = "error" /\ ErrorKind(ret.error) = "CapabilityError"
     /\ ret.op = "reindex" => ret.status = "error" /\ ErrorKind(ret.error) = "ConfigurationError"

\* C4, amended: with no provider or no index, semantic and reindex never reach
\* the gateway; each fails with the no-provider error when no provider is
\* configured and else with its own sqlite-vec-not-loaded error, and leaves
\* entries and vector records as they were.
C4_UnavailableFails ==
  /\ [](~Available => \A c \in calls : c.op \notin {"semantic", "reindex"})
  /\ [][(~Available /\ ret.status = "idle" /\ ret'.op \in {"semantic", "reindex"}) =>
          /\ ret'.status = "error"
          /\ ret'.error = IF ~embeddingConfig THEN "No embedding provider configured"
                          ELSE IF ret'.op = "semantic"
                               THEN "sqlite-vec not loaded - semantic search unavailable"
                               ELSE "sqlite-vec not loaded"
          /\ ErrorKind(ret'.error) \in {"ConfigurationError", "CapabilityError"}
          /\ ret'.gw = <<>>
          /\ intel' = intel /\ intel_vec' = intel_vec]_vars

C4_Witness ==
  /\ ret.op = "reindex" /\ ret.status = "error" /\ embeddingConfig /\ ~vecLoaded
  /\ Len(intel) >= 1

\* C5 as stated: a reindex that follows a reindex with no write in between
\* returns {embedded: 0, total: 0}.
C5_AsStated ==
  (ret.op = "reindex" /\ ret.status = "ok" /\ ret.prev # <<>>) =>
     ret.embedded = 0 /\ ret.total = 0

\* C5, amended: a reindex that follows a reindex with no write in between finds
\* missing exactly the entries the first one did not embed (total = first total
\* - first embedded), so it returns {embedded: 0, total: 0} when every batch of
\* the first one landed.
C5_SecondReindex ==
  (ret.op = "reindex" /\ ret.status = "ok" /\ ret.prev # <<>>) =>
     /\ ret.total = ret.prev[1].total - ret.prev[1].embedded
     /\ ret.prev[1].embedded = ret.prev[1].total => ret.embedded = 0 /\ ret.total = 0

C5_Witness ==
  /\ ret.op = "reindex" /\ ret.status = "ok" /\ ret.prev # <<>>
  /\ ret.prev[1].total > batchSize /\ ret.prev[1].embedded = ret.prev[1].total
  /\ ret.total = 0

\* C6: an entry id has at most one vector record, every vector record belongs
\* to a stored entry, and no read fails because entries lack vectors.
C6_VectorsBelong ==
  /\ \A v, w \in intel_vec : v.intel_id = w.intel_id => v = w
  /\ VecIds \subseteq Ids
  /\ ret.op \in {"search", "think"} => ret.status = "ok"
  /\ (ret.op = "semantic" /\ ret.gw # <<>> /\ ret.gw[1].landed) => ret.status = "ok"

C6_Witness ==
  /\ ret.op = "semantic" /\ ret.status = "ok" /\ Len(ret.rows) = 1
  /\ Cardinality(intel_vec) = 1 /\ Len(intel) = 2

\* C7: add without a title fails with the validation error, assigns no id,
\* calls no gateway and leaves both tables as they were.
C7_TitleRequired ==
  /\ [](\A c \in calls : c.op = "add" => c.title # Null)
  /\ [][(ret.status = "idle" /\ ret'.op = "add" /\ ret'.title = Null) =>
          /\ ret'.status = "error"
          /\ ErrorKind(ret'.error) = "ValidationError"
          /\ ret'.id = 0 /\ addLog' = addLog
          /\ ret'.gw = <<>> /\ calls' = calls
          /\ intel' = intel /\ intel_vec' = intel_vec]_vars

C7_Witness ==
  /\ ret.op = "add" /\ ret.status = "error" /\ ret.title = Null
  /\ Len(intel) >= 1 /\ intel_vec # {}

\* s has t as a contiguous, case-sensitive substring
Contains(s, t) == \E i \in 1..(Len(s) - Len(t) + 1) : SubSeq(s, i, i + Len(t) - 1) = t

\* a returned row is the stored entry r, column by column
SameEntry(row, r) ==
  /\ row.id = r.id /\ row.category = r.category /\ row.title = r.title
  /\ row.body = r.body /\ row.source = r.source /\ row.created_at = r.created_at

\* the rows are distinct, newest first, and the first min(limit, |want|) of want:
\* no entry left out is newer than one returned
Listing(rows, want, limit) ==
  /\ RowIds(rows) \subseteq { intel[k].id : k \in want }
  /\ Cardinality(RowIds(rows)) = Len(rows)
  /\ Len(rows) = Min(limit, Cardinality(want))
  /\ \A j \in 1..Len(rows) : \E k \in want : SameEntry(rows[j].row, intel[k])
  /\ \A j \in 1..(Len(rows) - 1) : rows[j].row.created_at >= rows[j + 1].row.created_at
  /\ \A k \in want : intel[k].id \notin RowIds(rows) =>
        \A j \in 1..Len(rows) : rows[j].row.created_at >= intel[k].created_at

\* C8 as stated: search returns the entries whose title, body or source
\* contains the text as a case-sensitive substring, newest first, up to limit.
C8_AsStated ==
  ret.op = "search" =>
     /\ ret.status = "ok"
     /\ Listing(ret.rows,
                { k \in 1..Len(intel) : \/ Contains(intel[k].title, ret.query)
                                        \/ Contains(intel[k].body, ret.query)
                                        \/ Contains(intel[k].source, ret.query) },
                ret.limit)

\* C8, amended: search returns the entries whose title, body or source matches
\* %text% under SQLite's LIKE (ASCII case ignored, % and _ of the text acting as
\* wildcards, a NULL column never matching), newest first, up to limit, one row
\* per entry, whatever the provider and index state.
C8_SearchLike ==
  ret.op = "search" =>
     /\ ret.status = "ok"
     /\ Listing(ret.rows,
                { k \in 1..Len(intel) : \/ ColLike(intel[k].title, ret.query)
                                        \/ ColLike(intel[k].body, ret.query)
                                        \/ ColLike(intel[k].source, ret.query) },
                ret.limit)

C8_Witness ==
  /\ ret.op = "search" /\ ret.status = "ok" /\ Len(ret.rows) = 1 /\ ret.limit = 2
  /\ Len(intel) = 2 /\ ret.query = <<"a">>
  /\ ret.rows[1].row.source = <<"A">>

\* C9: in a think result, an id of both pools scores strictly above what it
\* scores in the keyword pool alone and above what it scores in the semantic
\* pool alone at the same distance.
C9_FusionMonotone ==
  ret.op = "think" =>
     \A j \in 1..Len(ret.rows) : \A k \in 1..Len(ret.sem) : \A m \in 1..Len(ret.kw) :
        (ret.sem[k].intel_id = ret.rows[j].row.id /\ ret.kw[m] = ret.rows[j].row.id) =>
           /\ Gt(ret.rows[j].score, FuseScore(TRUE, Zero))
           /\ Gt(ret.rows[j].score, FuseScore(FALSE, Similarity(ret.sem[k].distance)))
           /\ Gt(FuseScore(TRUE, Zero), Zero)
           /\ Gt(FuseScore(FALSE, Similarity(ret.sem[k].distance)), Zero)

C9_Witness ==
  /\ ret.op = "think" /\ Len(ret.rows) = 2
  /\ \E k \in 1..Len(ret.sem) : \E m \in 1..Len(ret.kw) :
        ret.sem[k].intel_id = ret.kw[m] /\ ret.sem[k].distance = 3
           /\ ret.kw[m] \in RowIds(ret.rows)

RECURSIVE Entries(_, _)
\* the texts sent by the gateway calls of a log, all of them or of the calls that landed
Entries(log, landedOnly) ==
  IF log = <<>> THEN 0
  ELSE Entries(Tail(log), landedOnly)
       + (IF landedOnly /\ ~Head(log).landed THEN 0 ELSE Head(log).n)

\* C10: with provider and index available reindex never fails; it sends every
\* missing entry in batches of at most batchSize, one gateway call each, goes on
\* after a failed batch, and returns total = the entries without a vector when
\* it started and embedded = the entries of the batches that landed, which is
\* what the vector table grew by.
C10_ReindexCounts ==
  (ret.op = "reindex" /\ Available) =>
     /\ ret.status = "ok"
     /\ ret.total = Len(intel) - ret.vec0
     /\ ret.embedded = Entries(ret.gw, TRUE)
     /\ ret.total = Entries(ret.gw, FALSE)
     /\ ret.embedded <= ret.total
     /\ Len(ret.gw) = (ret.total + batchSize - 1) \div batchSize
     /\ Cardinality(intel_vec) = ret.vec0 + ret.embedded
     /\ Cardinality(Ids \ VecIds) = ret.total - ret.embedded

C10_Witness ==
  /\ ret.op = "reindex" /\ ret.status = "ok" /\ Len(ret.gw) = 2
  /\ ~ret.gw[1].landed /\ ret.gw[2].landed /\ ret.embedded = 1

\* C11: a gateway failure reaches the caller only from semantic: with provider
\* and index available and the gateway call failing, semantic fails (with the
\* gateway's own error when the gateway rejected the call) and leaves entries
\* and vector records as they were, while add, reindex and think with the same
\* failure in their gateway call still return normally.
C11_OnlySemanticSurfaces ==
  /\ [](\A j \in 1..Len(ret.gw) : ret.gw[j].outcome # "ok" =>
          /\ ret.op = "semantic" =>
               /\ ret.status = "error"
               /\ ret.gw[j].outcome = "throw" =>
                    ret.error = "embedding failed" /\ ErrorKind(ret.error) = "ProviderError"
          /\ ret.op \in {"add", "think", "reindex"} => ret.status = "ok")
  /\ [][(ret.status = "idle" /\ ret'.op = "semantic" /\ ret'.gw # <<>>
           /\ ret'.gw[1].outcome # "ok") =>
          intel' = intel /\ intel_vec' = intel_vec]_vars

C11_Witness ==
  /\ ret.op = "semantic" /\ ret.status = "error" /\ ret.error = "embedding failed"
  /\ ret.gw # <<>> /\ ret.gw[1].outcome = "throw"
  /\ Available /\ intel_vec # {} /\ Len(intel) = 2

\* C12: with provider and index available and the gateway call succeeding,
\* semantic returns normally at most limit entries, no entry twice, each a
\* stored entry with a vector record, each with similarity 1 / (1 + distance)
\* for the distance the index reported for it, best similarity first; when the
\* index reports no match the result is the empty list.
C12_SemanticResult ==
  (ret.op = "semantic" /\ ret.gw # <<>> /\ ret.gw[1].outcome = "ok") =>
     /\ ret.status = "ok"
     /\ Len(ret.rows) <= ret.limit
     /\ Cardinality(RowIds(ret.rows)) = Len(ret.rows)
     /\ \A j \in 1..Len(ret.rows) :
          /\ \E k \in 1..Len(intel) : SameEntry(ret.rows[j].row, intel[k])
          /\ ret.rows[j].row.id \in VecIds
          /\ \E k \in 1..Len(ret.sem) :
               /\ ret.sem[k].intel_id = ret.rows[j].row.id
               /\ ret.rows[j].score.n * (1 + ret.sem[k].distance) = ret.rows[j].score.d
     /\ \A j \in 1..(Len(ret.rows) - 1) : Ge(ret.rows[j].score, ret.rows[j + 1].score)
     /\ ret.sem = <<>> => ret.rows = <<>>

C12_Witness ==
  /\ ret.op = "semantic" /\ ret.status = "ok" /\ Len(ret.rows) = 2
  /\ ret.rows[1].row.id = 2 /\ ret.rows[2].row.id = 1
  /\ Gt(ret.rows[1].score, ret.rows[2].score)

\* what an optional tag list or metadata map stands for: empty when left out
Supplied(arg) == IF arg = <<>> THEN <<>> ELSE arg[1]

\* C13: every entry that query, search, semantic, think or export returns
\* carries the tags its add was given, in the same order, and the metadata its
\* add was given (the empty list and the empty map when left out), whatever
\* was called in between; no read fails on the stored text.
C13_RoundTrip ==
  /\ ret.error # "SyntaxError"
  /\ ret.op \in {"query", "search", "semantic", "think", "export"} =>
       \A j \in 1..Len(ret.rows) : \A k \in 1..Len(intel) :
          intel[k].id = ret.rows[j].row.id =>
             /\ ret.rows[j].row.tags = Supplied(addArgs[k].tags)
             /\ ret.rows[j].row.metadata = Supplied(addArgs[k].metadata)

C13_Witness ==
  /\ ret.op = "think" /\ ret.status = "ok" /\ Len(ret.rows) = 2
  /\ \E j, k \in 1..2 :
       /\ ret.rows[j].row.tags = << <<"a">>, <<"\"">> >>
       /\ ret.rows[j].row.metadata = << << <<"k">>, <<"\\", "v">> >> >>
       /\ ret.rows[k].row.tags = <<>> /\ ret.rows[k].row.metadata = <<>>
       /\ addArgs[ret.rows[k].row.id].tags = <<>>

\* C14: query with a category other than "all" (and no other filter) returns
\* exactly the stored entries of that category, query("all") every stored
\* entry, each entry once, both cut to limit (20 by default).
C14_QueryByCategory ==
  (ret.op = "query" /\ ret.opts[1].tag = Null /\ ret.opts[1].since = <<>>) =>
     LET q == ret.opts[1]
         want == { k \in 1..Len(intel) : q.category = "all" \/ intel[k].category = q.category }
     IN /\ ret.status = "ok"
        /\ \A j \in 1..Len(ret.rows) : \E k \in want : SameEntry(ret.rows[j].row, intel[k])
        /\ Cardinality(RowIds(ret.rows)) = Len(ret.rows)
        /\ Len(ret.rows) = Min(q.limit, Cardinality(want))
        /\ q.limit = DefaultLimit => RowIds(ret.rows) = { intel[k].id : k \in want }

C14_Witness ==
  /\ ret.op = "query" /\ ret.status = "ok" /\ ret.opts[1].category = "market"
  /\ ret.opts[1].limit = DefaultLimit /\ ret.opts[1].tag = Null
  /\ Len(intel) = 2 /\ Len(ret.rows) = 1
  /\ \E k \in 1..2 : intel[k].category = "newsletter"

\* the entry at position k was added with tag among its tags
Carries(k, tag) ==
  \E j \in 1..Len(Supplied(addArgs[k].tags)) : Supplied(addArgs[k].tags)[j] = tag

\* a string with its ASCII letters in lower case
Lower(s) == [j \in 1..Len(s) |-> Fold(s[j])]

C16_AsStated ==
  \A i, j \in 1..Len(ret.rows) :
     i < j =>
        /\ ret.op \in {"query", "search"} => ret.rows[i].row.id > ret.rows[j].row.id
        /\ ret.op = "export" => ret.rows[i].row.id < ret.rows[j].row.id

\* C16, amended: query and search return their entries by non-increasing
\* created_at and export by non-decreasing created_at, so of two returned
\* entries with different created_at the one added later comes first in query
\* and search and last in export; entries of equal created_at come in no
\* guaranteed order.
C16_ByCreatedAt ==
  \A i, j \in 1..Len(ret.rows) :
     i < j =>
        /\ ret.op \in {"query", "search"} =>
             /\ ret.rows[i].row.created_at >= ret.rows[j].row.created_at
             /\ ret.rows[i].row.created_at # ret.rows[j].row.created_at =>
                  ret.rows[i].row.id > ret.rows[j].row.id
        /\ ret.op = "export" =>
             /\ ret.rows[i].row.created_at <= ret.rows[j].row.created_at
             /\ ret.rows[i].row.created_at # ret.rows[j].row.created_at =>
                  ret.rows[i].row.id < ret.rows[j].row.id

C16_Witness ==
  /\ ret.op = "query" /\ ret.status = "ok" /\ Len(ret.rows) = 2
  /\ ret.rows[1].row.created_at = ret.rows[2].row.created_at
  /\ ret.rows[1].row.id < ret.rows[2].row.id

\* C17: in a store that has no embedding provider configured, every add with
\* a title succeeds with its entry stored, no call waits on the gateway and no
\* call that returned went to it, no vector record exists, and stats reports
\* vectored = 0 next to the true count of entries.
C17_NoProvider ==
  ~embeddingConfig =>
     /\ (ret.op = "add" /\ ret.title # Null) =>
          ret.status = "ok" /\ ret.id = intel[Len(intel)].id
     /\ calls = {}
     /\ ret.gw = <<>>
     /\ intel_vec = {}
     /\ ret.op = "stats" =>
          ret.status = "ok" /\ ret.stats[1].vectored = 0 /\ ret.stats[1].total = Len(intel)

C17_Witness ==
  /\ ~embeddingConfig /\ vecLoaded /\ ret.op = "stats" /\ ret.status = "ok"
  /\ ret.stats[1].total = 2 /\ ret.stats[1].vectored = 0 /\ Len(addLog) = 2

\* C18 as stated: a trade is created open (outcome null), and once its outcome
\* is set no later call changes its outcome, its pnl or its resolved timestamp
\* or returns it to the open state.
C18_AsStated ==
  [][/\ Len(trades') > Len(trades) => trades'[Len(trades')].outcome = <<>>
     /\ \A k \in 1..Len(trades) :
          trades[k].outcome # <<>> =>
             /\ trades'[k].outcome = trades[k].outcome
             /\ trades'[k].pnl_cents = trades[k].pnl_cents
             /\ trades'[k].resolved_at = trades[k].resolved_at]_vars

\* C19 as stated: the listing of open trades holds exactly the trades that were
\* never resolved and the listing of resolved trades exactly those that were,
\* each with the outcome it has, so every trade is in exactly one of the two.
C19_AsStated ==
  (ret.op = "trades" /\ ret.opts[1].limit = DefaultLimit /\ ret.opts[1].since = <<>>) =>
     /\ ret.opts[1].resolved = <<FALSE>> => RowIds(ret.rows) = TradeIds \ everResolved
     /\ ret.opts[1].resolved = <<TRUE>> =>
          /\ RowIds(ret.rows) = everResolved
          /\ \A j \in 1..Len(ret.rows) : \E k \in 1..Len(trades) :
               /\ trades[k].id = ret.rows[j].row.id
               /\ ret.rows[j].row.outcome = trades[k].outcome
               /\ ret.rows[j].row.outcome # <<>>

\* a = b for fractions
Eq(a, b) == a.n * b.d = b.n * a.d

C21_BatchAtomic ==
  [][\A c \in calls :
        (c.op = "reindex" /\ c \notin calls') =>
           LET batch == Batch(c.missing, c.i)
               ids == { batch[j].id : j \in 1..Len(batch) }
           IN /\ c.i % batchSize = 0
              /\ Len(batch) >= 1 /\ Len(batch) <= batchSize
              /\ Len(batch) = batchSize \/ c.i + Len(batch) = Len(c.missing)
              /\ \/ intel_vec' = intel_vec
                 \/ /\ { v.intel_id : v \in intel_vec' } = VecIds \cup ids
                    /\ Cardinality(intel_vec') = Cardinality(intel_vec) + Len(batch)]_vars

C21_Witness ==
  /\ ret.op = "reindex" /\ ret.status = "ok" /\ Len(ret.gw) = 2
  /\ ret.gw[1].outcome = "short" /\ ret.gw[1].n = batchSize /\ ~ret.gw[1].landed
  /\ ret.gw[2].landed /\ Cardinality(intel_vec) = ret.gw[2].n

\* C22: when provider and index are available and every gateway call of a
\* reindex answered with one vector per text, the reindex returns embedded =
\* total, no stored entry is left without a vector record, and each vector
\* record holds the document vector of the text of the entry it is stored under.
C22_FullReindex ==
  (ret.op = "reindex" /\ ret.status = "ok"
     /\ \A j \in 1..Len(ret.gw) : ret.gw[j].outcome = "ok") =>
     /\ ret.embedded = ret.total
     /\ Missing(intel, intel_vec) = <<>>
     /\ Ids = VecIds
     /\ \A v \in intel_vec : \A k \in 1..Len(intel) :
          intel[k].id = v.intel_id =>
             v.embedding = Vec(ComposeText(intel[k].title, intel[k].body), "document")

C22_Witness ==
  /\ ret.op = "reindex" /\ ret.status = "ok" /\ Len(ret.gw) = 2
  /\ ret.gw[1].outcome = "ok" /\ ret.gw[2].outcome = "ok"
  /\ ret.gw[1].n = batchSize /\ ret.embedded = ret.total /\ ret.total = Len(intel)
  /\ Cardinality(intel_vec) = Len(intel)


\* C23: every gateway call of add and of reindex asks for document vectors and
\* every gateway call of semantic and of think asks for a query vector; add hands
\* over exactly one text, the composed text of the entry it stored, semantic and
\* think exactly the query text. So every stored vector is a document vector.
C23_ModeAsymmetry ==
  /\ \A j \in 1..Len(ret.gw) :
       /\ ret.op \in {"add", "reindex"} => ret.gw[j].mode = "document"
       /\ ret.op \in {"semantic", "think"} =>
            /\ ret.gw[j].mode = "query"
            /\ ret.gw[j].n = 1
            /\ ret.gw[j].first = ret.query
       /\ ret.op = "add" =>
            /\ ret.gw[j].n = 1
            /\ \A k \in 1..Len(intel) :
                 intel[k].id = ret.id =>
                   ret.gw[j].first = ComposeText(intel[k].title, intel[k].body)
  /\ \A c \in calls : \A j \in 1..Len(c.gw) : c.gw[j].mode = "document"
  /\ \A v \in intel_vec : v.embedding.mode = "document"

C23_Witness ==
  /\ ret.op = "think" /\ ret.status = "ok" /\ Len(ret.gw) = 1
  /\ ret.gw[1].mode = "query" /\ ret.gw[1].n = 1 /\ ret.gw[1].first = ret.query
  /\ ret.gw[1].landed
  /\ Cardinality(intel_vec) = 2
  /\ \A v \in intel_vec : v.embedding.mode = "document"


\* C24 as stated: add issues at most one gateway call and none unless provider
\* and index are available, semantic issues exactly one, think at most one, and
\* a reindex one per batch of the entries it found missing.
C24_AsStated ==
  /\ ret.op = "add" =>
       Len(ret.gw) <= 1 /\ (~(embeddingConfig /\ vecLoaded) => ret.gw = <<>>)
  /\ ret.op = "semantic" => Len(ret.gw) = 1
  /\ ret.op = "think" => Len(ret.gw) <= 1
  /\ (ret.op = "reindex" /\ ret.status = "ok") =>
       Len(ret.gw) = (ret.total + batchSize - 1) \div batchSize

\* C24: no operation repeats a gateway call. add and think issue one call when
\* provider and index are available and the call is reached, and none otherwise;
\* semantic and reindex issue none when they fail their opening checks;
\* otherwise semantic issues exactly one and reindex one per batch of the
\* entries it found missing, the calls settled so far being as many as the
\* batches passed, whether they failed or not.
C24_NoRetry ==
  /\ ret.op = "add" =>
       /\ Len(ret.gw) <= 1
       /\ ~(embeddingConfig /\ vecLoaded) => ret.gw = <<>>
       /\ (embeddingConfig /\ vecLoaded /\ ret.status = "ok") => Len(ret.gw) = 1
  /\ ret.op = "semantic" =>
       Len(ret.gw) = IF embeddingConfig /\ vecLoaded THEN 1 ELSE 0
  /\ ret.op = "think" =>
       Len(ret.gw) = IF embeddingConfig /\ vecLoaded THEN 1 ELSE 0
  /\ ret.op = "reindex" =>
       /\ ret.status = "ok" => Len(ret.gw) = (ret.total + batchSize - 1) \div batchSize
       /\ ret.status = "error" => ret.gw = <<>> /\ ~(embeddingConfig /\ vecLoaded)
       /\ \A j \in 1..Len(ret.gw) :
            ret.gw[j].n = Min(batchSize, ret.total - (j - 1) * batchSize)
  /\ \A c \in calls :
       IF c.op = "reindex" THEN /\ Len(c.gw) * batchSize = c.i
                                /\ c.i < Len(c.missing)
       ELSE c.gw = <<>>

C24_Witness ==
  /\ ret.op = "reindex" /\ ret.status = "ok" /\ ret.total = 2
  /\ Len(ret.gw) = 1 /\ ret.gw[1].outcome = "throw" /\ ret.embedded = 0
  /\ ret.prev # <<>> /\ ret.prev[1].total = 2 /\ ret.prev[1].embedded = 0


\* C25: the availability of the vector index is what the construction of the
\* store made it: no step of any operation, failed or not, changes the flag (or
\* the configured provider), and stats reports the flag as it was set.
C25_AvailabilityFixed ==
  /\ [][vecLoaded' = vecLoaded /\ embeddingConfig' = embeddingConfig]_vars
  /\ [](ret.op = "stats" => ret.stats[1].vecEnabled = vecLoaded)

C25_Witness ==
  /\ ret.op = "stats" /\ ret.stats[1].vecEnabled /\ embeddingConfig /\ vecLoaded
  /\ ret.stats[1].total = 2 /\ ret.stats[1].vectored = 1
  /\ lastReindex # <<>> /\ lastReindex[1].total = 1 /\ lastReindex[1].embedded = 0


\* tag occurs in s as a run of consecutive characters
Within(tag, s) ==
  \E i \in 0..(Len(s) - Len(tag)) : SubSeq(s, i + 1, i + Len(tag)) = tag

\* a string without a quote, a backslash or a wildcard of LIKE
Plain(s) == \A j \in 1..Len(s) : s[j] \notin {"\"", "\\", "%", "_"}

Stepped(c) == c \in calls /\ c.op = "reindex" /\ c \notin calls'

\* what that step adds to the embedded count of c
Counted(c) ==
  IF \E d \in calls' \ calls : d.no = c.no
  THEN (CHOOSE d \in calls' \ calls : d.no = c.no).embedded - c.embedded
  ELSE ret'.embedded - c.embedded

\* no call that got past its opening checks surfaces an error
NothingSurfaces ==
  ret.status = "error" => (~Available \/ (ret.op = "add" /\ ret.title = Null))

\* an entry has at most one vector record
OneRecordEach == \A v, w \in intel_vec : v.intel_id = w.intel_id => v = w

\* C27 as stated: however add and reindex calls overlap at their gateway calls,
\* no call surfaces an error, no entry has two vector records, and what a
\* reindex call adds to its embedded count never exceeds the vector records it
\* creates (so the counts returned add up to at most the records created).
C27_AsStated ==
  /\ []NothingSurfaces
  /\ []OneRecordEach
  /\ [][\A c \in calls :
          Stepped(c) => Counted(c) <= Cardinality(intel_vec') - Cardinality(intel_vec)]_vars

\* C27, amended: however add and reindex calls overlap at their gateway calls,
\* no call surfaces an error, no entry has two vector records, every record
\* holds the document vector of its entry, an add returns the id of its entry
\* also when its record was already written by a reindex, and a reindex call
\* counts a batch as embedded exactly when it wrote the records of all entries
\* of the batch, whether it created them or replaced records written meanwhile.
C27_Overlapped ==
  /\ []NothingSurfaces
  /\ []OneRecordEach
  /\ [](\A v \in intel_vec : \E k \in 1..Len(intel) :
          /\ intel[k].id = v.intel_id
          /\ v.embedding = Vec(ComposeText(intel[k].title, intel[k].body), "document"))
  /\ [][\A c \in calls :
          /\ (c.op = "add" /\ c \notin calls') =>
                ret'.op = "add" /\ ret'.status = "ok" /\ ret'.id = c.id
          /\ Stepped(c) =>
                LET batch == Batch(c.missing, c.i)
                    ids == { batch[j].id : j \in 1..Len(batch) }
                    created == Cardinality(intel_vec') - Cardinality(intel_vec)
                IN /\ Counted(c) \in {0, Len(batch)}
                   /\ Counted(c) = 0 => intel_vec' = intel_vec
                   /\ Counted(c) = Len(batch) =>
                        /\ ids \subseteq { v.intel_id : v \in intel_vec' }
                        /\ created = Cardinality(ids \ VecIds)]_vars

C27_Witness ==
  /\ ret.op = "reindex" /\ ret.status = "ok" /\ ret.embedded = 1 /\ ret.total = 1
  /\ ret.prev = <<[embedded |-> 1, total |-> 1]>>
  /\ Len(intel) = 1 /\ Cardinality(intel_vec) = 1 /\ calls = {}


ReadOps == {"query", "search", "semantic", "think", "export", "stats", "tags", "trades"}

\* the step is one of a read: it settles a read, or a semantic or think call
\* reaches or leaves its gateway call
ReadStep ==
  \/ ret' # ret /\ ret'.op \in ReadOps
  \/ \E c \in calls' \ calls : c.op \in {"semantic", "think"}
  \/ \E c \in calls \ calls' : c.op \in {"semantic", "think"}

\* C28: a step of query, search, semantic, think, export, stats, tags or trades,
\* whether the call succeeds or fails, leaves the entries with all their
\* columns, the vector records and the trades as they were; and no step of any
\* operation changes or removes an entry that is stored.
C28_ReadsLeaveStore ==
  /\ [][ReadStep => /\ intel' = intel
                    /\ intel_vec' = intel_vec
                    /\ trades' = trades]_vars
  /\ [][/\ Len(intel') >= Len(intel)
        /\ \A k \in 1..Len(intel) : intel'[k] = intel[k]]_vars

C28_Witness ==
  /\ ret.op = "tags" /\ ret.status = "ok" /\ Len(ret.rows) = 3
  /\ ret.rows[1].row.count = 1
  /\ Len(intel) = 2 /\ Cardinality(intel_vec) = 1

====
